---- MODULE Spec2Model ----
(***************************************************************************)
(* State-machine model of the `specify` package: Param descriptors         *)
(* (specify/param.py, specify/types.py), the class registry built by       *)
(* SpecifiedMetaclass and the instance binding layer of Specified          *)
(* (specify/specified.py).                                                 *)
(*                                                                         *)
(* Python objects are modelled by identity: a descriptor is an index into  *)
(* `heap`, a class is a number 1..ncls (0 stands for the package's own     *)
(* base class Specified, which declares no parameter), an instance is an   *)
(* index into `inst`.  Python values are strings; "None" is Python's None. *)
(* "3#" is an object equal (==) to "3" but not identical to it (two floats *)
(* of the same value).  All values are atomic, so copy.deepcopy and        *)
(* copy.copy of a value return the very object they are given.             *)
(* Classes have one base each (single inheritance).  The owner of a         *)
(* descriptor is 0 (None), a class number, or -x for instance number x.     *)
(***************************************************************************)
EXTENDS Integers, Sequences, FiniteSets, TLC

VARIABLES heap, cdict, spec, parent, inst, last, err

vars == <<heap, cdict, spec, parent, inst, last, err>>

\* ------------------------------------------------------------------ bounds
MaxClasses == 3
MaxDesc == 3
MaxInst == 1
MaxBody == 1

Names == {"alpha", "beta"}

\* Values a class body gives as a plain value.
BodyVals == {"3"}

\* Values a class-level assignment gives.
AssignVals == {"1.0"}

\* Values a keyword argument of a constructor carries.
KwVals == {"None", "3"}

\* Values written to a parameter of an instance.
WriteVals == {"3", "3#"}

\* ------------------------------------------------------------------ values
\* Python's == on values: "3#" == "3".
ValOf(o) == IF o = "3#" THEN "3" ELSE o

PyEq(a, b) == ValOf(a) = ValOf(b)

\* Python's truth value of a slot value.
Truthy(v) == v \notin {"None", "False"}

\* ------------------------------------------------------------- descriptors
\* __slots__ of each descriptor type, superclasses' slots included.
ParamSlots == {"name", "default", "units", "doc", "constant", "owner", "attrname"}

AllSlots(variant) ==
    CASE variant = "Param"  -> ParamSlots
      [] variant = "Range"  -> ParamSlots \cup {"start", "end"}
      [] variant = "Slider" -> ParamSlots \cup {"start", "end", "step", "widget"}

\* hasattr(p, slot): every slot of the type is assigned by __init__.
HasAttr(p, slot) == slot \in AllSlots(p.variant)

\* Param._attrname
AttrName(name) == "_" \o name \o "_specified_value"

AttrNames == {AttrName(n) : n \in Names}

\* Param.__init__ and the __init__ of Range and Slider: a fresh descriptor of
\* the given type from keyword arguments kw (a record; "None" where the
\* keyword is not given).  A slot the type does not have is "<noslot>".
\* `origin` is not a slot: it records where the object was created ("body": an
\* expression of a class body, "override": SpecifiedMetaclass.__new__,
\* "copy": SpecifiedMetaclass.__setattr__).
NewParam(variant, kw, origin) ==
    [variant  |-> variant,
     origin   |-> origin,
     name     |-> "None",
     default  |-> kw.default,
     units    |-> kw.units,
     doc      |-> "None",
     constant |-> kw.constant,
     owner    |-> 0,
     attrname |-> "None",
     start    |-> IF "start" \in AllSlots(variant) THEN kw.start ELSE "<noslot>",
     end      |-> IF "end" \in AllSlots(variant) THEN kw.end ELSE "<noslot>",
     step     |-> IF "step" \in AllSlots(variant) THEN kw.step ELSE "<noslot>",
     widget   |-> IF variant = "Slider" THEN "slider" ELSE "<noslot>"]

NoKw == [default |-> "None", units |-> "None", constant |-> "False",
         start |-> "None", end |-> "None", step |-> "None"]

\* type(value)(default=v): only the default is given.
DefaultOnly(v) == [NoKw EXCEPT !.default = v]

\* The declarations a class body may hold for a name: nothing, a plain value,
\* or a descriptor expression.  "beta" is declared as in tests/param-specified.py.
SliderDecl ==
    [k |-> "new", variant |-> "Slider",
     kw |-> [NoKw EXCEPT !.default = "0.5", !.units = "MHz",
                         !.start = "0.0", !.end = "10.0", !.step = "1"]]

Decls(n) ==
    IF n = "beta" THEN { [k |-> "absent"], SliderDecl }
    ELSE { [k |-> "absent"], SliderDecl }
         \cup { [k |-> "plain", v |-> v] : v \in BodyVals }
         \cup { [k |-> "new", variant |-> "Param",
                 kw |-> [NoKw EXCEPT !.default = "1.0", !.units = "a.u."]],
                [k |-> "new", variant |-> "Slider",
                 kw |-> [NoKw EXCEPT !.constant = "True"]] }

\* The keywords the __init__ of each descriptor type accepts, those it passes
\* on to the __init__ of its superclasses included.
InitKeywords(variant) ==
    CASE variant = "Param"  -> {"default", "units", "doc", "constant"}
      [] variant = "Range"  -> {"default", "units", "doc", "constant", "start", "end"}
      [] variant = "Slider" -> {"default", "units", "doc", "constant", "start", "end", "step"}

\* Param.copy(): type(self) is called with one keyword for every slot of
\* get_all_slots(type(self)) but owner; a keyword __init__ does not accept is
\* a TypeError.  Otherwise the new object has the fields __init__ sets from
\* its keywords and then takes the owner of the original.  [p, err]
ParamCopy(p) ==
    LET keys == AllSlots(p.variant) \ {"owner"}
        made == [f \in DOMAIN p |->
                    IF f \in {"variant", "widget"} THEN p[f]
                    ELSE IF f = "origin" THEN "copy"
                    ELSE IF f \in {"name", "attrname"} THEN "None"
                    ELSE IF f = "owner" THEN p.owner
                    ELSE p[f]]
    IN  IF keys \subseteq InitKeywords(p.variant)
        THEN [p |-> made, err |-> "ok"]
        ELSE [p |-> p, err |-> "TypeError"]

\* ------------------------------------------------------------------ classes
IsParam(e) == e > 0

\* utils.classlist for class c, reversed: the method-resolution order, c first.
RECURSIVE Mro(_, _)
Mro(par, c) == IF c = 0 THEN <<>> ELSE <<c>> \o Mro(par, par[c])

\* utils.classlist: root-most first.
RECURSIVE Reverse(_)
Reverse(s) == IF s = <<>> THEN <<>> ELSE Reverse(Tail(s)) \o <<Head(s)>>

ClassList(par, c) == Reverse(Mro(par, c))

NoNames == [n \in Names |-> 0]

\* The order in which the keys of a class body, of a keyword-argument dict or
\* of a sorted list of names are walked.
NameSeq == <<"alpha", "beta">>

\* A Python dict keyed by parameter names (a class __dict__, the registry
\* `spec` of a class, the `spec_local` of an instance) keeps its keys in the
\* order of their first insertion: the dict is its entries together with that
\* order, kept under "<order>".
NoKeys == [k \in Names \cup {"<order>"} |-> IF k = "<order>" THEN <<>> ELSE 0]

Order(d) == d["<order>"]

\* d[key] = v: a key the dict already has keeps its position.
Put(d, key, v) ==
    [d EXCEPT ![key] = v,
              !["<order>"] = IF \E i \in DOMAIN Order(d) : Order(d)[i] = key
                             THEN Order(d) ELSE Append(Order(d), key)]

\* Mutant of SetNamesRaises: a descriptor is bound to any name, named and
\* owned or not.
SetNamesAccepts(p, name) == FALSE

\* Param._set_names: TRUE when binding p to `name` raises AttributeError.
SetNamesRaises(p, name) == p.name # "None" /\ p.owner # 0 /\ name # p.name

SetNames(p, name) == [p EXCEPT !.name = name, !.attrname = AttrName(name)]

\* Mutant of SlotWalk: the classes are walked root-most first (classlist(cls)
\* without the reversal), so the farthest ancestor's value is taken.
RECURSIVE SlotWalkRootFirst(_, _, _, _, _, _)
SlotWalkRootFirst(mro, cd, h, pname, slot, cur) ==
    IF cur # "None" \/ mro = <<>> THEN cur
    ELSE LET e == cd[mro[Len(mro)]][pname]
             nxt == IF IsParam(e) /\ HasAttr(h[e], slot) THEN h[e][slot] ELSE cur
         IN  SlotWalkRootFirst(SubSeq(mro, 1, Len(mro) - 1), cd, h, pname, slot, nxt)

\* SpecifiedMetaclass.__param_inheritance, the while loop for one slot: walk
\* the classes of mro (cls first) while the slot is still None; cur is the
\* slot's value on the descriptor being resolved.
RECURSIVE SlotWalk(_, _, _, _, _, _)
SlotWalk(mro, cd, h, pname, slot, cur) ==
    IF cur # "None" \/ mro = <<>> THEN cur
    ELSE LET e == cd[Head(mro)][pname]
             nxt == IF IsParam(e) /\ HasAttr(h[e], slot) THEN h[e][slot] ELSE cur
         IN  SlotWalk(Tail(mro), cd, h, pname, slot, nxt)

\* SpecifiedMetaclass.__param_inheritance(cls, pname, param): the resolved
\* descriptor record.  p is the descriptor's current record, cd and h the class
\* dicts and the heap the ancestors are read from.
ParamInheritance(par, cd, h, cls, pname, p) ==
    LET Fill(slot) == IF HasAttr(p, slot)
                      THEN SlotWalk(Mro(par, cls), cd, h, pname, slot, p[slot])
                      ELSE p[slot]
    IN  [p EXCEPT !.owner = cls,
                  !.name = Fill("name"),
                  !.default = Fill("default"),
                  !.units = Fill("units"),
                  !.doc = Fill("doc"),
                  !.constant = Fill("constant"),
                  !.attrname = Fill("attrname"),
                  !.start = Fill("start"),
                  !.end = Fill("end"),
                  !.step = Fill("step"),
                  !.widget = Fill("widget")]

\* The class body: the descriptors it constructs are allocated as the body
\* runs, before the metaclass is called.  acc = [h, own]: own[n] is the body's
\* entry for n (0 absent, -1 a plain value, else the descriptor).
RECURSIVE RunBody(_, _, _)
RunBody(ks, body, acc) ==
    IF ks = <<>> THEN acc
    ELSE LET n == Head(ks)
             d == body[n]
         IN  RunBody(Tail(ks), body,
                 CASE d.k = "absent" -> acc
                   [] d.k = "plain"  -> [acc EXCEPT !.own = Put(@, n, -1)]
                   [] d.k = "new"    ->
                        [h |-> Append(acc.h, NewParam(d.variant, d.kw, "body")),
                         own |-> Put(acc.own, n, Len(acc.h) + 1)])

\* Mutant of NewKeys: a plain value in the body does not get a descriptor of
\* its own, the ancestor's descriptor object is entered in the class dict.
RECURSIVE NewKeysShared(_, _, _, _, _)
NewKeysShared(ks, A, cd, body, acc) ==
    IF ks = <<>> THEN acc
    ELSE LET key == Head(ks)
             value == cd[A][key]
         IN  NewKeysShared(Tail(ks), A, cd, body,
                 IF ~IsParam(value) THEN acc
                 ELSE IF acc.own[key] = 0
                      THEN [acc EXCEPT !.sp = Put(@, key, value)]
                 ELSE IF IsParam(acc.own[key]) THEN acc
                 ELSE [acc EXCEPT !.own = Put(@, key, value), !.sp = Put(@, key, value)])

\* SpecifiedMetaclass.__new__, the loop over vars(superclass) for one
\* superclass A.  acc = [h, own, sp]: sp is the `specs` being built.
RECURSIVE NewKeys(_, _, _, _, _)
NewKeys(ks, A, cd, body, acc) ==
    IF ks = <<>> THEN acc
    ELSE LET key == Head(ks)
             value == cd[A][key]
             p == NewParam(acc.h[value].variant, DefaultOnly(body[key].v), "override")
             id == Len(acc.h) + 1
         IN  NewKeys(Tail(ks), A, cd, body,
                 IF ~IsParam(value) THEN acc
                 ELSE IF acc.own[key] = 0
                      THEN [acc EXCEPT !.sp = Put(@, key, value)]
                 ELSE IF IsParam(acc.own[key]) THEN acc
                 ELSE [h |-> Append(acc.h, p),
                       own |-> Put(acc.own, key, id),
                       sp |-> Put(acc.sp, key, id)])

\* SpecifiedMetaclass.__new__, the loop over the superclasses of the base:
\* classlist(base)[::-1], the base first and the root-most class last; the
\* keys of vars(superclass) are walked in the order of that class dict.
RECURSIVE NewSupers(_, _, _, _)
NewSupers(mro, cd, body, acc) ==
    IF mro = <<>> THEN acc
    ELSE NewSupers(Tail(mro), cd, body, NewKeys(Order(cd[Head(mro)]), Head(mro), cd, body, acc))

MetaNew(par, cd, h, base, body) ==
    LET b == RunBody(NameSeq, body, [h |-> h, own |-> NoKeys])
    IN  NewSupers(Mro(par, base), cd, body, [h |-> b.h, own |-> b.own, sp |-> NoKeys])

\* SpecifiedMetaclass.__init__ of class cls: every descriptor of the class dict
\* is named, resolved against the ancestors and entered in the registry.
\* acc = [h, sp, raised].
RECURSIVE MetaInit(_, _, _, _, _)
MetaInit(ks, par, cd, cls, acc) ==
    IF ks = <<>> \/ acc.raised THEN acc
    ELSE LET pname == Head(ks)
             id == cd[cls][pname]
             named == SetNames(acc.h[id], pname)
             h1 == [acc.h EXCEPT ![id] = named]
             res == ParamInheritance(par, cd, h1, cls, pname, named)
         IN  MetaInit(Tail(ks), par, cd, cls,
                 IF ~IsParam(id) THEN acc
                 ELSE IF SetNamesRaises(acc.h[id], pname)
                      THEN [acc EXCEPT !.raised = TRUE]
                 ELSE [h |-> [h1 EXCEPT ![id] = res],
                       sp |-> Put(acc.sp, pname, id),
                       raised |-> FALSE])

\* The class statement `class C(base): <body>`: the state after the metaclass
\* has built class number cls.  [h, cd, sp, par, raised]
ClassStatement(par, cd, h, base, body) ==
    LET cls == Len(cd) + 1
        n == MetaNew(par, cd, h, base, body)
        par1 == Append(par, base)
        cd1 == Append(cd, n.own)
        i == MetaInit(Order(n.own), par1, cd1, cls, [h |-> n.h, sp |-> n.sp, raised |-> FALSE])
    IN  [h |-> i.h, cd |-> cd1, sp |-> i.sp, par |-> par1, raised |-> i.raised]

AllDecls == UNION {Decls(n) : n \in Names}

Bodies == {b \in [Names -> AllDecls] :
              /\ \A n \in Names : b[n] \in Decls(n)
              /\ Cardinality({n \in Names : b[n].k # "absent"}) <= MaxBody}

\* SpecifiedMetaclass.get_param_descriptor(cls, pname) over mro (cls first):
\* the first class whose dict holds a descriptor under pname, as
\* [id, owner]; [0, 0] is (None, None).
RECURSIVE DescriptorWalk(_, _, _)
DescriptorWalk(mro, cd, pname) ==
    IF mro = <<>> THEN [id |-> 0, owner |-> 0]
    ELSE IF IsParam(cd[Head(mro)][pname])
         THEN [id |-> cd[Head(mro)][pname], owner |-> Head(mro)]
         ELSE DescriptorWalk(Tail(mro), cd, pname)

GetParamDescriptor(par, cd, cls, pname) == DescriptorWalk(Mro(par, cls), cd, pname)

\* SpecifiedMetaclass.__setattr__, `if owner != cls`: the descriptor found is
\* an ancestor's and the class gets its own copy.
NeedsCopy(owner, cls) == owner # cls

\* Mutant of CopyFor: the copy keeps the owner of the original.
CopyKeepsOwner(p, cls) == [p EXCEPT !.origin = "copy"]

\* copy.copy(parameter) followed by parameter.owner = cls.
CopyFor(p, cls) == [p EXCEPT !.owner = cls, !.origin = "copy"]

\* Param.__set__(None, value): at class level the default is replaced, for a
\* constant parameter as for any other.
SetDefault(p, value) == [p EXCEPT !.default = value]

\* SpecifiedMetaclass.__setattr__(cls, name, value) for a value that is not a
\* descriptor: [h, cd, sp, made], made the descriptor created (0: none).
MetaSetAttr(par, cd, sp, h, cls, name, value) ==
    LET d == GetParamDescriptor(par, cd, cls, name)
        new == Len(h) + 1
    IN  IF d.id # 0
        THEN IF NeedsCopy(d.owner, cls)
             THEN [h |-> Append(h, SetDefault(CopyFor(h[d.id], cls), value)),
                   cd |-> [cd EXCEPT ![cls] = Put(@, name, new)],
                   sp |-> [sp EXCEPT ![cls] = Put(@, name, new)],
                   made |-> new]
             ELSE [h |-> [h EXCEPT ![cd[cls][name]] = SetDefault(@, value)],
                   cd |-> cd, sp |-> sp, made |-> 0]
        ELSE [h |-> h, cd |-> [cd EXCEPT ![cls] = Put(@, name, -1)], sp |-> sp, made |-> 0]

\* SpecifiedMetaclass.__setattr__(cls, name, value) for a value that is a
\* descriptor, lines 169-175: the object p, just constructed, is entered in
\* the class dict, resolved against the classes of cls (cls, whose dict now
\* holds p itself, first) and entered in the registry.  _set_names is not
\* called.  [h, cd, sp, made]
MetaSetParam(par, cd, sp, h, cls, name, p) ==
    LET new == Len(h) + 1
        cd1 == [cd EXCEPT ![cls] = Put(@, name, new)]
        h1 == Append(h, p)
    IN  [h |-> [h1 EXCEPT ![new] = ParamInheritance(par, cd1, h1, cls, name, p)],
         cd |-> cd1,
         sp |-> [sp EXCEPT ![cls] = Put(@, name, new)],
         made |-> new]

\* SpecifiedMetaclass._add_param(cls, pname, param) without a default, param
\* the object p just constructed: [h, cd, sp, err].
MetaAddParam(par, cd, sp, h, cls, pname, p) ==
    LET new == Len(h) + 1
        named == SetNames(p, pname)
        h1 == Append(h, named)
    IN  IF cd[cls][pname] # 0
        THEN [h |-> h, cd |-> cd, sp |-> sp, err |-> "ValueError"]
        ELSE IF SetNamesRaises(p, pname)
        THEN [h |-> h, cd |-> cd, sp |-> sp, err |-> "AttributeError"]
        ELSE [h |-> [h1 EXCEPT ![new] = ParamInheritance(par, cd, h1, cls, pname, named)],
              cd |-> [cd EXCEPT ![cls] = Put(@, pname, new)],
              sp |-> [sp EXCEPT ![cls] = Put(@, pname, new)],
              err |-> "ok"]

\* ---------------------------------------------------------------- instances
\* Keys of an instance __dict__: the storage keys of the parameters, and None,
\* the storage key of a descriptor that was never named.
DictKeys == AttrNames \cup {"None"}

EmptyDict == [k \in DictKeys |-> "<unset>"]

\* Specified.__init__, lines 211-213: no widget, no watcher, and (NoKeys) no
\* instance-local descriptor.  widgets[n] is the value of the widget linked
\* under n, watchers[n] the number of callbacks registered on that widget.
NoWidgets == [n \in Names |-> "<none>"]

NoWatchers == [n \in Names |-> 0]

\* stale[n]: some widget that was linked under n and has since been replaced
\* still has a registered callback of the instance.
NoStale == [n \in Names |-> FALSE]

\* Param.__get__(obj, type) for an instance with __dict__ d.
ParamGet(p, d) == IF d[p.attrname] # "<unset>" THEN d[p.attrname] ELSE p.default

\* Mutant of ParamSet: a constant parameter is written like any other.
ParamSetNoConstant(p, o, value) ==
    IF o.dict[p.attrname] = "<unset>"
    THEN [o |-> o, err |-> "KeyError"]
    ELSE [o |-> [o EXCEPT !.dict[p.attrname] = value], err |-> "ok"]

\* Param.__set__, lines 156-159: a widget is linked under the descriptor's
\* name and its value differs (!=) from the value written.
WidgetDiffers(p, o, value) ==
    p.name \in Names /\ o.widgets[p.name] # "<none>" /\ ~PyEq(o.widgets[p.name], value)

\* Param.__set__, lines 159-160: the events (each given by its new value) the
\* linked widget sends its watchers while p is written: one for the
\* assignment widget.value = value, which changes the value, and one for
\* widget.param.trigger('value').
WriteEvents(p, o, value) ==
    IF WidgetDiffers(p, o, value) THEN <<value, value>> ELSE <<>>

\* Mutant of SyncWidget: the linked widget is left as it is.
SyncWidgetIdle(p, o, value) == o

\* Param.__set__, lines 156-161: a widget linked under the descriptor's name
\* whose value differs (!=) from the value written takes that value.  The
\* callbacks the widget then runs write the same value to the same parameter.
SyncWidget(p, o, value) ==
    IF WidgetDiffers(p, o, value)
    THEN [o EXCEPT !.widgets[p.name] = value]
    ELSE o

\* Mutant of ParamSet: the value is stored under every key the instance
\* holds, the parameters sharing their storage.
ParamSetSharedKey(p, o, value) ==
    IF Truthy(p.constant) /\ o.initialized
    THEN [o |-> o, err |-> "TypeError"]
    ELSE IF o.dict[p.attrname] = "<unset>"
         THEN [o |-> o, err |-> "KeyError"]
         ELSE [o |-> [o EXCEPT !.dict = [k \in DictKeys |->
                                           IF @[k] = "<unset>" THEN @[k] ELSE value]],
               err |-> "ok"]

\* Param.__set__(obj, value) for an instance o: [o, err].  The method calls
\* obj.debug and the linked widget, and no other method of obj: o.hooks, the
\* change-hook invocations made on the instance, is left as it is.
ParamSet(p, o, value) ==
    IF Truthy(p.constant) /\ o.initialized
    THEN [o |-> o, err |-> "TypeError"]
    ELSE IF o.dict[p.attrname] = "<unset>"
         THEN [o |-> o, err |-> "KeyError"]
         ELSE [o |-> SyncWidget(p, [o EXCEPT !.dict[p.attrname] = value], value),
               err |-> "ok"]

\* setattr(obj, name, value) where the type's attribute lookup finds a
\* descriptor under name: the nearest class dict entry decides.
InstSetAttr(par, cd, h, o, name, value) ==
    ParamSet(h[GetParamDescriptor(par, cd, o.cls, name).id], o, value)

\* Mutant of ToInstantiate: the first declaration met (the root-most) is kept.
RECURSIVE ToInstantiateFirst(_, _, _)
ToInstantiateFirst(classes, cd, acc) ==
    IF classes = <<>> THEN acc
    ELSE ToInstantiateFirst(Tail(classes), cd,
             [n \in Names |-> IF IsParam(cd[Head(classes)][n]) /\ acc[n] = 0
                              THEN cd[Head(classes)][n] ELSE acc[n]])

\* Specified.__init__, lines 216-231: the descriptors of the class hierarchy
\* are collected root-most class first, so the nearest declaration of a name
\* replaces a farther one, and their defaults are stored.
RECURSIVE ToInstantiate(_, _, _)
ToInstantiate(classes, cd, acc) ==
    IF classes = <<>> THEN acc
    ELSE ToInstantiate(Tail(classes), cd,
             [n \in Names |-> IF IsParam(cd[Head(classes)][n])
                              THEN cd[Head(classes)][n] ELSE acc[n]])

RECURSIVE StoreDefaults(_, _, _, _)
StoreDefaults(ks, ti, h, d) ==
    IF ks = <<>> THEN d
    ELSE StoreDefaults(Tail(ks), ti, h,
             IF ti[Head(ks)] = 0 THEN d
             ELSE [d EXCEPT ![h[ti[Head(ks)]].attrname] = h[ti[Head(ks)]].default])

\* self.__class__.__name__, and the klass the base object supplies: the label
\* of class c.
ClassLabel(c) == "class" \o ToString(c)

\* `key in self.spec`
InSpec(sp, cls, key) == key \in Names /\ sp[cls][key] # 0

\* The keys of a keyword-argument dict: the parameter names, then the reserved
\* key when the dict has one (to_dict enters it last).
KwKeys(kw) == NameSeq \o (IF "_spec_class" \in DOMAIN kw THEN <<"_spec_class">> ELSE <<>>)

\* Mutant of ApplyKwargs: a keyword that is not in the registry is rejected,
\* as a function rejects a keyword it does not declare.
RECURSIVE ApplyKwargsStrict(_, _, _, _, _, _, _)
ApplyKwargsStrict(ks, kw, par, cd, sp, h, acc) ==
    IF ks = <<>> \/ acc.err # "ok" THEN acc
    ELSE LET key == Head(ks)
         IN  ApplyKwargsStrict(Tail(ks), kw, par, cd, sp, h,
                 IF kw[key] = "<absent>" THEN acc
                 ELSE IF key = "_spec_class" /\ kw[key] # ClassLabel(acc.o.cls) THEN acc
                 ELSE IF ~InSpec(sp, acc.o.cls, key) THEN [acc EXCEPT !.err = "TypeError"]
                 ELSE IF kw[key] = "None" THEN acc
                 ELSE InstSetAttr(par, cd, h, acc.o, key, kw[key]))

\* Mutant of ApplyKwargs: a reserved key that does not match the class's label
\* ends the construction with an error.
RECURSIVE ApplyKwargsChecksLabel(_, _, _, _, _, _, _)
ApplyKwargsChecksLabel(ks, kw, par, cd, sp, h, acc) ==
    IF ks = <<>> \/ acc.err # "ok" THEN acc
    ELSE LET key == Head(ks)
         IN  ApplyKwargsChecksLabel(Tail(ks), kw, par, cd, sp, h,
                 IF kw[key] = "<absent>" THEN acc
                 ELSE IF key = "_spec_class" /\ kw[key] # ClassLabel(acc.o.cls)
                      THEN [acc EXCEPT !.err = "ValueError"]
                 ELSE IF ~InSpec(sp, acc.o.cls, key) \/ kw[key] = "None" THEN acc
                 ELSE InstSetAttr(par, cd, h, acc.o, key, kw[key]))

\* Specified.__init__, lines 233-245: the keyword arguments are applied with
\* setattr; a reserved key whose value is not the class's label, a keyword
\* that is not in the registry and a keyword whose value is None are skipped.
\* kw[n] = "<absent>": no keyword n.  acc = [o, err].
RECURSIVE ApplyKwargs(_, _, _, _, _, _, _)
ApplyKwargs(ks, kw, par, cd, sp, h, acc) ==
    IF ks = <<>> \/ acc.err # "ok" THEN acc
    ELSE LET key == Head(ks)
         IN  ApplyKwargs(Tail(ks), kw, par, cd, sp, h,
                 IF kw[key] = "<absent>" THEN acc
                 ELSE IF key = "_spec_class" /\ kw[key] # ClassLabel(acc.o.cls) THEN acc
                 ELSE IF ~InSpec(sp, acc.o.cls, key) \/ kw[key] = "None" THEN acc
                 ELSE InstSetAttr(par, cd, h, acc.o, key, kw[key]))

\* Specified.__init__(**kw) of an instance of cls: [o, err].  The keywords
\* that were not applied are passed on to the __init__ of the base object,
\* which is not part of the package and is taken to accept them.
SpecifiedInit(par, cd, sp, h, cls, kw) ==
    LET ti == ToInstantiate(ClassList(par, cls), cd, NoNames)
        o0 == [cls |-> cls, initialized |-> FALSE,
               widgets |-> NoWidgets, watchers |-> NoWatchers,
               local |-> NoKeys, hooks |-> <<>>, stale |-> NoStale,
               dict |-> StoreDefaults(NameSeq, ti, h, EmptyDict)]
        r == ApplyKwargs(KwKeys(kw), kw, par, cd, sp, h, [o |-> o0, err |-> "ok"])
    IN  [o |-> [r.o EXCEPT !.initialized = TRUE], err |-> r.err]

\* Specified.params(): the entries of the class registry, then those of the
\* instance-local registry.
Params(sp, o) == [registry |-> sp[o.cls], local |-> o.local]

\* Specified.__iter__: the names params() yields, the class registry's first,
\* then the instance-local registry's, each in the order of its dict.
IterNames(sp, o) == Order(Params(sp, o).registry) \o Order(Params(sp, o).local)

\* Specified.defaults() collected in a dict: the default of every parameter,
\* an instance-local entry replacing a registry entry of the same name.
Defaults(sp, h, o) ==
    [n \in Names |-> IF Params(sp, o).local[n] # 0 THEN h[Params(sp, o).local[n]].default
                     ELSE IF Params(sp, o).registry[n] # 0
                          THEN h[Params(sp, o).registry[n]].default
                     ELSE "<absent>"]

\* Mutant of Update: an item whose setattr raises is passed over and the
\* items after it are written.
RECURSIVE UpdateSkipsFailures(_, _, _, _, _, _)
UpdateSkipsFailures(ks, d, par, cd, h, acc) ==
    IF ks = <<>> THEN acc
    ELSE UpdateSkipsFailures(Tail(ks), d, par, cd, h,
             IF d[Head(ks)] = "<absent>" THEN acc
             ELSE IF InstSetAttr(par, cd, h, acc.o, Head(ks), d[Head(ks)]).err # "ok" THEN acc
             ELSE InstSetAttr(par, cd, h, acc.o, Head(ks), d[Head(ks)]))

\* Specified.update(d): setattr for each item, stopping at the first that
\* raises.  acc = [o, err].
RECURSIVE Update(_, _, _, _, _, _)
Update(ks, d, par, cd, h, acc) ==
    IF ks = <<>> \/ acc.err # "ok" THEN acc
    ELSE Update(Tail(ks), d, par, cd, h,
             IF d[Head(ks)] = "<absent>" THEN acc
             ELSE InstSetAttr(par, cd, h, acc.o, Head(ks), d[Head(ks)]))

\* Mutant of ResetInstance: reset reopens the instance, leaving it
\* uninitialized.
ResetReopens(par, cd, sp, h, o) ==
    LET r == Update(IterNames(sp, o), Defaults(sp, h, o), par, cd, h, [o |-> o, err |-> "ok"])
    IN  [o |-> [r.o EXCEPT !.initialized = FALSE], err |-> r.err]

\* Mutant of ResetInstance: the defaults are written in the reverse of the
\* order of params().
ResetReversed(par, cd, sp, h, o) ==
    Update(Reverse(IterNames(sp, o)), Defaults(sp, h, o), par, cd, h, [o |-> o, err |-> "ok"])

\* Specified.reset(): update(dict(defaults())), the defaults in the order of
\* params().
ResetInstance(par, cd, sp, h, o) ==
    Update(IterNames(sp, o), Defaults(sp, h, o), par, cd, h, [o |-> o, err |-> "ok"])

Kwargs == [Names -> KwVals \cup {"<absent>"}]

\* getattr(obj, name): the descriptor the type's attribute lookup finds reads
\* the instance; without one the lookup fails.
GetAttr(par, cd, h, o, name) ==
    IF GetParamDescriptor(par, cd, o.cls, name).id # 0
    THEN ParamGet(h[GetParamDescriptor(par, cd, o.cls, name).id], o.dict)
    ELSE "<AttributeError>"

\* Specified.items(): (name, value) for every name of __iter__.
Items(par, cd, sp, h, o) ==
    [i \in DOMAIN IterNames(sp, o) |->
        <<IterNames(sp, o)[i], GetAttr(par, cd, h, o, IterNames(sp, o)[i])>>]

\* dict(items): the value of the last pair of each name.
AsDict(items) ==
    [n \in Names |->
        LET at == {i \in DOMAIN items : items[i][1] = n}
        IN  IF at = {} THEN "<absent>"
            ELSE items[CHOOSE i \in at : \A j \in at : j <= i][2]]

\* Specified.to_dict(): the items, none of them nested, and the class under
\* the reserved key.
ToDict(par, cd, sp, h, o) ==
    [k \in Names \cup {"_spec_class"} |->
        IF k = "_spec_class" THEN ClassLabel(o.cls) ELSE AsDict(Items(par, cd, sp, h, o))[k]]

\* Specified.copy(**overrides): [o, err], o the new instance.
CopyInstance(par, cd, sp, h, o, overrides) ==
    LET specvalues == AsDict(Items(par, cd, sp, h, o))
        kw == [n \in Names |-> IF specvalues[n] # "<absent>" /\ overrides[n] # "<absent>"
                               THEN overrides[n] ELSE specvalues[n]]
    IN  SpecifiedInit(par, cd, sp, h, o.cls, kw)

\* `pname in self.__dict__`
InDict(o, pname) == pname \in {k \in DictKeys : o.dict[k] # "<unset>"}

\* Specified.add_param(pname, param, value=value) on instance number x, the
\* descriptor being h[id]: [h, cd, o, err].  value "None": no value given.
AddParam(cd, h, x, o, pname, id, value) ==
    LET named == SetNames(h[id], pname)
        owned == [named EXCEPT !.owner = -x]
        key == owned.attrname
    IN  IF InDict(o, pname)
        THEN [h |-> h, cd |-> cd, o |-> o, err |-> "ValueError"]
        ELSE IF SetNamesRaises(h[id], pname)
        THEN [h |-> h, cd |-> cd, o |-> o, err |-> "AttributeError"]
        ELSE [h |-> [h EXCEPT ![id] = owned],
              cd |-> [cd EXCEPT ![o.cls] = Put(@, pname, id)],
              o |-> [o EXCEPT !.local = Put(@, pname, id),
                              !.dict[key] = IF value # "None" THEN value
                                            ELSE IF @ # "<unset>" THEN @
                                            ELSE owned.default],
              err |-> "ok"]

\* Specified.get_widgets(), lines 384-398: the names of the instance whose
\* descriptor, in the class registry or the instance-local one, has a widget.
WidgetNames(sp, h, o) ==
    {n \in Names :
        \/ sp[o.cls][n] # 0 /\ HasAttr(h[sp[o.cls][n]], "widget")
                            /\ h[sp[o.cls][n]].widget # "None"
        \/ o.local[n] # 0 /\ HasAttr(h[o.local[n]], "widget")
                          /\ h[o.local[n]].widget # "None"}

\* Specified.get_widgets(), lines 416-439: a slider is built for each name, in
\* sorted order, showing the parameter's current value.  acc = [o, err].
RECURSIVE BuildWidgets(_, _, _, _, _, _, _)
BuildWidgets(ks, names, par, cd, sp, h, acc) ==
    IF ks = <<>> \/ acc.err # "ok" THEN acc
    ELSE LET name == Head(ks)
             id == IF sp[acc.o.cls][name] # 0 THEN sp[acc.o.cls][name]
                   ELSE acc.o.local[name]
         IN  BuildWidgets(Tail(ks), names, par, cd, sp, h,
                 IF name \notin names THEN acc
                 ELSE IF ~HasAttr(h[id], "widget")
                      THEN [acc EXCEPT !.err = "AttributeError"]
                 ELSE IF h[id].widget \in {"slider", "logslider"}
                      THEN [acc EXCEPT !.o.widgets[name] = GetAttr(par, cd, h, acc.o, name),
                                       !.o.watchers[name] = 0]
                 ELSE acc)

\* Specified.get_widgets(), lines 407-410: the handles of the widgets about to
\* be replaced are deleted from _widgets.  Nothing is unregistered: a widget
\* dropped with a callback keeps it.
DropHandles(o, names) ==
    [o EXCEPT !.stale = [n \in Names |->
                            @[n] \/ (n \in names /\ o.widgets[n] # "<none>"
                                                  /\ o.watchers[n] > 0)],
              !.widgets = [n \in Names |-> IF n \in names THEN "<none>" ELSE @[n]],
              !.watchers = [n \in Names |-> IF n \in names THEN 0 ELSE @[n]]]

\* Specified.get_widgets() without include or exclude: [o, err].  The widgets
\* about to be replaced are dropped, the new ones built, and the callback is
\* registered with every widget of the instance.
GetWidgets(par, cd, sp, h, o) ==
    LET names == WidgetNames(sp, h, o)
        dropped == DropHandles(o, names)
        built == BuildWidgets(NameSeq, names, par, cd, sp, h, [o |-> dropped, err |-> "ok"])
    IN  IF names = {} THEN [o |-> dropped, err |-> "ok"]
        ELSE IF built.err # "ok" THEN built
        ELSE [o |-> [built.o EXCEPT !.watchers =
                        [n \in Names |-> IF built.o.widgets[n] # "<none>" THEN @[n] + 1 ELSE @[n]]],
              err |-> "ok"]

\* Specified.unlink_widgets() without names: [o, err].  For the first name
\* with a widget the callback is unregistered, and the del statement that
\* follows reads `name`, which is bound nowhere: NameError.
UnlinkWidgets(sp, o) ==
    LET names == IterNames(sp, o)
        linked == {i \in DOMAIN names : o.widgets[names[i]] # "<none>"}
        first == names[CHOOSE i \in linked : \A j \in linked : i <= j]
    IN  IF linked = {} THEN [o |-> o, err |-> "ok"]
        ELSE [o |-> [o EXCEPT !.watchers[first] = IF @ > 0 THEN @ - 1 ELSE 0],
              err |-> "NameError"]

\* The callback of get_widgets, line 447: (widget, new_value) == prev_event,
\* prev the last event the callback has handled (<<>>: None), an event being
\* the name its widget is linked under and its new value.
SameEvent(prev, name, v) == prev # <<>> /\ prev[1] = name /\ PyEq(prev[2], v)

\* The callback of get_widgets run on the events of the widget of `name`: the
\* number of events for which it calls setattr, an event equal to the one
\* handled last being passed over.
RECURSIVE CallbackWrites(_, _, _)
CallbackWrites(events, name, prev) ==
    IF events = <<>> THEN 0
    ELSE IF SameEvent(prev, name, Head(events))
         THEN CallbackWrites(Tail(events), name, prev)
         ELSE 1 + CallbackWrites(Tail(events), name, <<name, Head(events)>>)

\* The callback of get_widgets, run by the widget of `name` when its value is
\* set to v: setattr(self, widget.name, v).  Without a registered callback
\* only the widget changes.  [o, err]
WidgetCallback(par, cd, h, o, name, v) ==
    LET moved == [o EXCEPT !.widgets[name] = v]
        r == InstSetAttr(par, cd, h, moved, name, v)
    IN  IF o.watchers[name] = 0 THEN [o |-> moved, err |-> "ok"]
        ELSE IF r.err # "ok" THEN [o |-> moved, err |-> r.err]
        ELSE r

\* The callback of an earlier get_widgets, run by a replaced widget of `name`
\* when its value is set to v: setattr(self, widget.name, v).  [o, err]
StaleCallback(par, cd, h, o, name, v) ==
    LET r == InstSetAttr(par, cd, h, o, name, v)
    IN  IF r.err # "ok" THEN [o |-> o, err |-> r.err] ELSE r

\* ------------------------------------------------------------------ actions
Init ==
    /\ heap = <<>>
    /\ cdict = <<>>
    /\ spec = <<>>
    /\ parent = <<>>
    /\ inst = <<>>
    /\ last = "start"
    /\ err = "ok"

NumClasses == Len(cdict)

\* The bases a new class may have: Specified itself (0) for the first class,
\* any class defined so far for the others.
Bases == IF NumClasses = 0 THEN {0} ELSE 1..NumClasses

\* A class is defined with one base and a body.
DefineClass(base, body) ==
    LET r == ClassStatement(parent, cdict, heap, base, body)
    IN  /\ NumClasses < MaxClasses
        /\ Len(r.h) <= MaxDesc
        /\ heap' = r.h
        /\ cdict' = r.cd
        /\ spec' = Append(spec, r.sp)
        /\ parent' = r.par
        /\ last' = "class"
        /\ err' = "ok"
        /\ UNCHANGED inst

\* cls.name = value at class level, value not a descriptor and name one that
\* resolves to a parameter of cls.
ClassSetAttr(cls, name, value) ==
    LET r == MetaSetAttr(parent, cdict, spec, heap, cls, name, value)
    IN  /\ GetParamDescriptor(parent, cdict, cls, name).id # 0
        /\ Len(r.h) <= MaxDesc
        /\ heap' = r.h
        /\ cdict' = r.cd
        /\ spec' = r.sp
        /\ last' = "csetattr"
        /\ err' = "ok"
        /\ UNCHANGED <<parent, inst>>

\* x = cls(**kw), while fewer than `limit` instances exist.
ConstructUpTo(limit, cls, kw) ==
    LET r == SpecifiedInit(parent, cdict, spec, heap, cls, kw)
    IN  /\ Len(inst) < limit
        /\ inst' = IF r.err = "ok" THEN Append(inst, r.o) ELSE inst
        /\ last' = "new"
        /\ err' = r.err
        /\ UNCHANGED <<heap, cdict, spec, parent>>

Construct(cls, kw) == ConstructUpTo(MaxInst, cls, kw)

\* x.name = value on an instance, name one of its parameters.
SetAttr(x, name, value) ==
    LET r == InstSetAttr(parent, cdict, heap, inst[x], name, value)
    IN  /\ (spec[inst[x].cls][name] # 0 \/ inst[x].local[name] # 0)
        /\ GetParamDescriptor(parent, cdict, inst[x].cls, name).id # 0
        /\ inst' = [inst EXCEPT ![x] = r.o]
        /\ last' = "setattr"
        /\ err' = r.err
        /\ UNCHANGED <<heap, cdict, spec, parent>>

\* x.reset()
Reset(x) ==
    LET r == ResetInstance(parent, cdict, spec, heap, inst[x])
    IN  /\ inst' = [inst EXCEPT ![x] = r.o]
        /\ last' = "reset"
        /\ err' = r.err
        /\ UNCHANGED <<heap, cdict, spec, parent>>

Next ==
    \/ \E base \in Bases, body \in Bodies : DefineClass(base, body)
    \/ \E cls \in 1..NumClasses, name \in Names, value \in AssignVals :
          ClassSetAttr(cls, name, value)
    \/ \E cls \in 1..NumClasses, kw \in Kwargs : Construct(cls, kw)
    \/ \E x \in 1..Len(inst), name \in Names, value \in WriteVals :
          SetAttr(x, name, value)
    \/ \E x \in 1..Len(inst) : Reset(x)

Spec == Init /\ [][Next]_vars

\* ------------------------------------------- instances of a defined class
MaxObjects == 2
MaxLocal == 2
MaxLinked == 1

\* The class body of tests/param-specified.py with its Slider declaration.
ModelBody == [n \in Names |-> IF n = "beta" THEN SliderDecl ELSE [k |-> "absent"]]

\* The class state after `class M(Specified): beta = Slider(...)`.
ModelDefined == ClassStatement(<<>>, <<>>, <<>>, 0, ModelBody)

\* The state once the class statement has run and no instance exists.
InitDefined ==
    /\ heap = ModelDefined.h
    /\ cdict = ModelDefined.cd
    /\ spec = <<ModelDefined.sp>>
    /\ parent = ModelDefined.par
    /\ inst = <<>>
    /\ last = "class"
    /\ err = "ok"

\* The descriptors a caller may pass to add_param: a Param it has just
\* constructed, or a descriptor object that exists already.
LocalDecls ==
    { [k |-> "new", variant |-> "Param", kw |-> [NoKw EXCEPT !.default = "1.0"]] }
    \cup { [k |-> "old", id |-> i] : i \in 1..Len(heap) }

LocalVals == {"None", "3"}

\* x.add_param(pname, d, value=value)
AddLocalParam(x, pname, d, value) ==
    LET id == IF d.k = "old" THEN d.id ELSE Len(heap) + 1
        h0 == IF d.k = "old" THEN heap
              ELSE Append(heap, NewParam(d.variant, d.kw, "local"))
        r == AddParam(cdict, h0, x, inst[x], pname, id, value)
    IN  /\ Len(h0) <= MaxLocal
        /\ heap' = IF r.err = "ok" THEN r.h ELSE heap
        /\ cdict' = r.cd
        /\ inst' = [inst EXCEPT ![x] = r.o]
        /\ last' = "addparam"
        /\ err' = r.err
        /\ UNCHANGED <<spec, parent>>

\* y = x.copy(**overrides)
Copy(x, overrides) ==
    LET r == CopyInstance(parent, cdict, spec, heap, inst[x], overrides)
    IN  /\ Len(inst) < MaxObjects
        /\ inst' = IF r.err = "ok" THEN Append(inst, r.o) ELSE inst
        /\ last' = "copy"
        /\ err' = r.err
        /\ UNCHANGED <<heap, cdict, spec, parent>>

\* x.update(d), every key of d a parameter of x.
UpdateValues(x, d) ==
    LET r == Update(NameSeq, d, parent, cdict, heap, [o |-> inst[x], err |-> "ok"])
    IN  /\ \A n \in Names :
              d[n] # "<absent>" => (spec[inst[x].cls][n] # 0 \/ inst[x].local[n] # 0)
        /\ \E n \in Names : d[n] # "<absent>"
        /\ inst' = [inst EXCEPT ![x] = r.o]
        /\ last' = "update"
        /\ err' = r.err
        /\ UNCHANGED <<heap, cdict, spec, parent>>

\* x.get_widgets(), x one of the first MaxLinked instances.
LinkWidgets(x) ==
    LET r == GetWidgets(parent, cdict, spec, heap, inst[x])
    IN  /\ x <= MaxLinked
        /\ inst' = [inst EXCEPT ![x] = r.o]
        /\ last' = "widgets"
        /\ err' = r.err
        /\ UNCHANGED <<heap, cdict, spec, parent>>

\* x.unlink_widgets()
Unlink(x) ==
    LET r == UnlinkWidgets(spec, inst[x])
    IN  /\ inst' = [inst EXCEPT ![x] = r.o]
        /\ last' = "unlink"
        /\ err' = r.err
        /\ UNCHANGED <<heap, cdict, spec, parent>>

\* The user moves the slider of x linked under name to v.
WidgetEvent(x, name, v) ==
    LET r == WidgetCallback(parent, cdict, heap, inst[x], name, v)
    IN  /\ inst[x].widgets[name] # "<none>"
        /\ ~PyEq(inst[x].widgets[name], v)
        /\ inst' = [inst EXCEPT ![x] = r.o]
        /\ last' = "event"
        /\ err' = r.err
        /\ UNCHANGED <<heap, cdict, spec, parent>>

\* The user moves a slider that x.get_widgets() returned earlier and has
\* since replaced under name.
StaleWidgetEvent(x, name, v) ==
    LET r == StaleCallback(parent, cdict, heap, inst[x], name, v)
    IN  /\ inst[x].stale[name]
        /\ inst' = [inst EXCEPT ![x] = r.o]
        /\ last' = "staleevent"
        /\ err' = r.err
        /\ UNCHANGED <<heap, cdict, spec, parent>>

UpdateDicts == [Names -> {"<absent>", "3"}]

\* Values written to instances and set on sliders.
SliderVals == {"3"}

\* Keyword arguments as to_dict() exports them: with the reserved key, holding
\* the label of the class of the first or of the second class statement.
TaggedKwargs ==
    {[k \in Names \cup {"_spec_class"} |-> IF k = "_spec_class" THEN tag ELSE kw[k]] :
        kw \in Kwargs, tag \in {ClassLabel(1), ClassLabel(2)}}

NextDefined ==
    \/ \E cls \in 1..NumClasses, kw \in Kwargs \cup TaggedKwargs :
          ConstructUpTo(MaxObjects, cls, kw)
    \/ \E x \in 1..Len(inst), name \in Names, value \in SliderVals :
          SetAttr(x, name, value)
    \/ \E x \in 1..Len(inst) : Reset(x)
    \/ \E x \in 1..Len(inst), d \in UpdateDicts : UpdateValues(x, d)
    \/ \E x \in 1..Len(inst), pname \in Names, d \in LocalDecls, value \in LocalVals :
          AddLocalParam(x, pname, d, value)
    \/ \E x \in 1..Len(inst), overrides \in Kwargs : Copy(x, overrides)
    \/ \E x \in 1..Len(inst) : LinkWidgets(x)
    \/ \E x \in 1..Len(inst) : Unlink(x)
    \/ \E x \in 1..Len(inst), name \in Names, v \in SliderVals : WidgetEvent(x, name, v)
    \/ \E x \in 1..Len(inst), name \in Names, v \in SliderVals :
          StaleWidgetEvent(x, name, v)

SpecDefined == InitDefined /\ [][NextDefined]_vars

\* ------------------------------- descriptors installed on a defined class
MaxAssigned == 3

\* The state after `class M(Specified): beta = Slider(...)` and
\* `class Sub(M): pass`.
SubDefined ==
    ClassStatement(ModelDefined.par, ModelDefined.cd, ModelDefined.h, 1,
                   [n \in Names |-> [k |-> "absent"]])

InitAssign ==
    /\ heap = SubDefined.h
    /\ cdict = SubDefined.cd
    /\ spec = <<ModelDefined.sp, SubDefined.sp>>
    /\ parent = SubDefined.par
    /\ inst = <<>>
    /\ last = "class"
    /\ err = "ok"

\* The descriptors installed at class level: Param(), every field unset.
AssignDecls == { [variant |-> "Param", kw |-> NoKw] }

\* cls.name = d at class level, d a descriptor just constructed.
ClassSetParam(cls, name, d) ==
    LET r == MetaSetParam(parent, cdict, spec, heap, cls, name,
                          NewParam(d.variant, d.kw, "assigned"))
    IN  /\ Len(r.h) <= MaxAssigned
        /\ heap' = r.h
        /\ cdict' = r.cd
        /\ spec' = r.sp
        /\ last' = "cassign"
        /\ err' = "ok"
        /\ UNCHANGED <<parent, inst>>

\* cls._add_param(pname, d), d a descriptor just constructed.
ClassAddParam(cls, pname, d) ==
    LET r == MetaAddParam(parent, cdict, spec, heap, cls, pname,
                          NewParam(d.variant, d.kw, "assigned"))
    IN  /\ Len(r.h) <= MaxAssigned
        /\ heap' = r.h
        /\ cdict' = r.cd
        /\ spec' = r.sp
        /\ last' = "caddparam"
        /\ err' = r.err
        /\ UNCHANGED <<parent, inst>>

NextAssign ==
    \/ \E cls \in 1..NumClasses, name \in Names, d \in AssignDecls :
          ClassSetParam(cls, name, d)
    \/ \E cls \in 1..NumClasses, name \in Names, d \in AssignDecls :
          ClassAddParam(cls, name, d)
    \/ \E cls \in 1..NumClasses, kw \in Kwargs : Construct(cls, kw)
    \/ \E x \in 1..Len(inst), name \in Names, value \in WriteVals :
          SetAttr(x, name, value)
    \/ \E x \in 1..Len(inst) : Reset(x)

SpecAssign == InitAssign /\ [][NextAssign]_vars

\* ------------------------------------------------------------- properties
\* The classes of c's method-resolution order, as a set.
ChainOf(par, c) == {Mro(par, c)[i] : i \in DOMAIN Mro(par, c)}

Max(S) == CHOOSE a \in S : \A b \in S : b <= a

\* What attribute lookup of n on class c resolves to: the descriptor in the
\* dict of the nearest class of c's method-resolution order that holds one (a
\* class is numbered after its base, so the nearest is the greatest); 0: none.
LookupId(par, cd, c, n) ==
    LET S == {a \in ChainOf(par, c) : cd[a][n] > 0}
    IN  IF S = {} THEN 0 ELSE cd[Max(S)][n]

\* The value x.n reads on instance o.
Read(par, cd, h, o, n) == ParamGet(h[LookupId(par, cd, o.cls, n)], o.dict)

\* The descriptor fields the resolver may fill from an ancestor.
InheritedFields == {"default", "units", "doc", "start", "end", "step", "widget"}

\* The value of `field` on the nearest class of c's method-resolution order
\* whose descriptor for n has the field and holds a value other than None.
NearestValue(par, cd, h, c, n, field) ==
    LET S == {a \in ChainOf(par, c) :
                 /\ cd[a][n] > 0
                 /\ field \in AllSlots(h[cd[a][n]].variant)
                 /\ h[cd[a][n]][field] # "None"}
    IN  IF S = {} THEN "None" ELSE h[cd[Max(S)][n]][field]

\* C1: right after a class is defined, for every name its body does not
\* declare, the registry entry is the descriptor of the nearest ancestor that
\* declares the name.
C1_RegistryIsNearestAfterDefinition ==
    last = "class" =>
        \A n \in Names :
            cdict[NumClasses][n] = 0 =>
                spec[NumClasses][n] = LookupId(parent, cdict, parent[NumClasses], n)

\* Every registry entry is the descriptor attribute lookup resolves to.
RegistryMatchesLookup(par, cd, sp) ==
    \A c \in 1..Len(cd), n \in Names : sp[c][n] = LookupId(par, cd, c, n)

\* C2: a class-level assignment of a plain value, made when every registry
\* entry is the descriptor attribute lookup resolves to, leaves every registry
\* entry of every class the descriptor attribute lookup resolves to; a subclass
\* defined earlier has the copy the assignment installs as its entry.
C2_AssignmentKeepsRegistriesCurrent ==
    [][(last' = "csetattr" /\ RegistryMatchesLookup(parent, cdict, spec))
          => RegistryMatchesLookup(parent', cdict', spec')]_vars

\* C3: a field left unset by a descriptor declared in a class body is resolved
\* to the value of the nearest ancestor whose descriptor of that name has the
\* field with a value other than None.
C3_UnsetFieldFromNearestAncestor ==
    [][last' = "class" =>
          \A base \in Bases, body \in Bodies :
              DefineClass(base, body) =>
                  \A n \in Names :
                      body[n].k = "new" =>
                          \A f \in InheritedFields \cap AllSlots(body[n].variant) :
                              NewParam(body[n].variant, body[n].kw, "body")[f] = "None" =>
                                  heap'[cdict'[NumClasses + 1][n]][f]
                                      = NearestValue(parent, cdict, heap, base, n, f)]_vars

\* C3 witness: a chain of three classes declaring the same name, the
\* grandparent and the parent with different units, the child with its units
\* left unset (the constant declaration) and resolved to the parent's.
C3_Witness ==
    /\ last = "class"
    /\ \E c \in 1..NumClasses, n \in Names :
          /\ parent[c] # 0 /\ parent[parent[c]] # 0
          /\ cdict[c][n] > 0 /\ cdict[parent[c]][n] > 0 /\ cdict[parent[parent[c]]][n] > 0
          /\ heap[cdict[c][n]].constant = "True"
          /\ heap[cdict[parent[c]][n]].units = "MHz"
          /\ heap[cdict[parent[parent[c]]][n]].units = "a.u."
          /\ heap[cdict[c][n]].units = "MHz"

\* C4: a class body that re-declares an inherited name as a plain value v gets
\* a new descriptor of the type of the nearest ancestor's, with default v and
\* every other metadata field equal to the ancestor's.
C4_PlainOverrideKeepsMetadata ==
    [][last' = "class" =>
          \A base \in Bases, body \in Bodies :
              DefineClass(base, body) =>
                  \A n \in Names :
                      (body[n].k = "plain" /\ LookupId(parent, cdict, base, n) # 0) =>
                          LET a == heap[LookupId(parent, cdict, base, n)]
                              d == heap'[cdict'[NumClasses + 1][n]]
                          IN  /\ cdict'[NumClasses + 1][n] > Len(heap)
                              /\ d.variant = a.variant
                              /\ d.default = body[n].v
                              /\ d.units = a.units
                              /\ d.doc = a.doc
                              /\ d.constant = a.constant
                              /\ d.start = a.start
                              /\ d.end = a.end
                              /\ d.step = a.step
                              /\ d.widget = a.widget]_vars

\* C5: a class-level assignment cls.n = v of a plain value installs, when n
\* resolves to an ancestor's descriptor, a copy owned by cls with default v as
\* the class's declaration and registry entry and changes no existing
\* descriptor; when n is declared on cls it changes the default of that
\* descriptor only and creates no descriptor.
C5_AssignmentCopiesOrUpdatesInPlace ==
    [][last' = "csetattr" =>
          \A cls \in 1..NumClasses, n \in Names, v \in AssignVals :
              ClassSetAttr(cls, n, v) =>
                  LET old == LookupId(parent, cdict, cls, n)
                      new == cdict'[cls][n]
                  IN  IF cdict[cls][n] <= 0
                      THEN /\ new = Len(heap) + 1
                           /\ Len(heap') = Len(heap) + 1
                           /\ spec'[cls][n] = new
                           /\ heap'[new] = [heap[old] EXCEPT !.owner = cls, !.default = v,
                                                             !.origin = "copy"]
                           /\ \A i \in 1..Len(heap) : heap'[i] = heap[i]
                      ELSE /\ cdict' = cdict
                           /\ spec' = spec
                           /\ Len(heap') = Len(heap)
                           /\ heap'[old] = [heap[old] EXCEPT !.default = v]
                           /\ \A i \in 1..Len(heap) : i # old => heap'[i] = heap[i]]_vars

\* C5 witness: a class holds a copy made by an assignment, owned by it, with
\* the assigned default, as its registry entry, and the descriptor of its base
\* keeps another default.
C5_Witness ==
    /\ last = "csetattr"
    /\ \E c \in 1..NumClasses, n \in Names :
          /\ cdict[c][n] > 0
          /\ heap[cdict[c][n]].origin = "copy"
          /\ heap[cdict[c][n]].owner = c
          /\ heap[cdict[c][n]].default = "1.0"
          /\ spec[c][n] = cdict[c][n]
          /\ LookupId(parent, cdict, parent[c], n) # 0
          /\ heap[LookupId(parent, cdict, parent[c], n)].default = "0.5"

\* C6: for two subclasses c1, c2 of one base that each hold their own
\* descriptor for a parameter of the base, the assignment c1.n = v sets c1's
\* default and changes neither c2's default nor the base's.
C6_SiblingDefaultsIsolated ==
    [][last' = "csetattr" =>
          \A c1 \in 1..NumClasses, n \in Names, v \in AssignVals :
              ClassSetAttr(c1, n, v) =>
                  \A c2 \in 1..NumClasses :
                      (/\ c2 # c1
                       /\ parent[c1] = parent[c2]
                       /\ cdict[c1][n] > 0
                       /\ cdict[c2][n] > 0
                       /\ LookupId(parent, cdict, parent[c1], n) # 0) =>
                          LET b == LookupId(parent, cdict, parent[c1], n)
                          IN  /\ heap'[cdict'[c1][n]].default = v
                              /\ heap'[cdict[c2][n]].default = heap[cdict[c2][n]].default
                              /\ heap'[b].default = heap[b].default]_vars

\* C6 witness: two subclasses of one base re-declared the base's parameter by
\* a plain value; after c1.n = "1.0" the three defaults differ.
C6_Witness ==
    /\ last = "csetattr"
    /\ \E c1, c2 \in 1..NumClasses, n \in Names :
          /\ c1 # c2 /\ parent[c1] = parent[c2] /\ parent[c1] # 0
          /\ cdict[c1][n] > 0 /\ cdict[c2][n] > 0 /\ cdict[parent[c1]][n] > 0
          /\ heap[cdict[c1][n]].origin = "override"
          /\ heap[cdict[c2][n]].origin = "override"
          /\ heap[cdict[c1][n]].default = "1.0"
          /\ heap[cdict[c2][n]].default = "3"
          /\ heap[cdict[parent[c1]][n]].default = "0.5"

\* C7: a write to a constant parameter of an initialized instance raises
\* TypeError and leaves the instance as it was; a keyword of the constructor
\* that names a constant parameter is written, the instance not yet being
\* initialized.
C7_ConstantWritableOnlyDuringConstruction ==
    [][/\ last' = "setattr" =>
              \A x \in 1..Len(inst), n \in Names, v \in WriteVals :
                  (/\ SetAttr(x, n, v)
                   /\ inst[x].initialized
                   /\ Truthy(heap[LookupId(parent, cdict, inst[x].cls, n)].constant)) =>
                      (err' = "TypeError" /\ inst' = inst)
       /\ last' = "new" =>
              \A cls \in 1..NumClasses, kw \in Kwargs :
                  Construct(cls, kw) =>
                      \A n \in Names :
                          (/\ spec[cls][n] # 0
                           /\ kw[n] \notin {"<absent>", "None"}
                           /\ Truthy(heap[LookupId(parent, cdict, cls, n)].constant)) =>
                              /\ err' = "ok"
                              /\ Len(inst') = Len(inst) + 1
                              /\ inst'[Len(inst')].initialized
                              /\ Read(parent, cdict, heap, inst'[Len(inst')], n) = kw[n]]_vars

\* C7 witness: a write to a constant parameter of an initialized instance has
\* just failed, and the parameter holds the value a constructor keyword gave it.
C7_Witness ==
    /\ last = "setattr"
    /\ err = "TypeError"
    /\ \E x \in 1..Len(inst), n \in Names :
          /\ inst[x].initialized
          /\ LookupId(parent, cdict, inst[x].cls, n) # 0
          /\ Truthy(heap[LookupId(parent, cdict, inst[x].cls, n)].constant)
          /\ heap[LookupId(parent, cdict, inst[x].cls, n)].default # "3"
          /\ Read(parent, cdict, heap, inst[x], n) = "3"

NoKwargs == [n \in Names |-> "<absent>"]

\* No parameter of class c is constant.
NoConstants(c) ==
    \A n \in Names :
        /\ spec[c][n] # 0 => ~Truthy(heap[spec[c][n]].constant)
        /\ LookupId(parent, cdict, c, n) # 0 =>
              ~Truthy(heap[LookupId(parent, cdict, c, n)].constant)

\* C9: reset() on an initialized instance of a class without constant
\* parameters leaves every parameter with the value a fresh construction of
\* the class without keywords holds.
C9_ResetRestoresFreshValues ==
    [][last' = "reset" =>
          \A x \in 1..Len(inst) :
              (Reset(x) /\ inst[x].initialized /\ NoConstants(inst[x].cls)) =>
                  \A n \in Names :
                      spec[inst[x].cls][n] # 0 =>
                          Read(parent, cdict, heap, inst'[x], n)
                              = Read(parent, cdict, heap,
                                     SpecifiedInit(parent, cdict, spec, heap,
                                                   inst[x].cls, NoKwargs).o, n)]_vars

\* C10: a write of a value equal to the parameter's current value leaves the
\* instance __dict__ as it was: the stored object is the object stored before.
C10_EqualWriteKeepsStoredObject ==
    [][last' = "setattr" =>
          \A x \in 1..Len(inst), n \in Names, v \in WriteVals :
              (SetAttr(x, n, v) /\ PyEq(v, Read(parent, cdict, heap, inst[x], n))) =>
                  inst'[x].dict = inst[x].dict]_vars

\* C11: an instance exists as initialized once its construction has stored the
\* default of every registry parameter and applied the keywords, and every
\* later operation (attribute write, update, reset, copy, add_param,
\* get_widgets, unlink_widgets, a widget event) leaves it initialized.
C11_InitializedOnceAndForGood ==
    [][/\ \A x \in 1..Len(inst) :
              inst[x].initialized => (x <= Len(inst') /\ inst'[x].initialized)
       /\ Len(inst') > Len(inst) =>
              /\ inst'[Len(inst')].initialized
              /\ \A n \in Names :
                    spec'[inst'[Len(inst')].cls][n] # 0 =>
                        inst'[Len(inst')].dict[AttrName(n)] # "<unset>"]_vars

\* C11 witness: an instance that was given an instance-local parameter and a
\* widget has just been reset and is initialized.
C11_Witness ==
    /\ last = "reset"
    /\ \E x \in 1..Len(inst) :
          /\ inst[x].initialized
          /\ inst[x].local["alpha"] # 0
          /\ inst[x].widgets["beta"] # "<none>"

\* C12: x.add_param(n, d) leaves the class registry and every other instance
\* as they were, and an instance constructed afterwards has, for a name that
\* is not in the class registry, no instance-local parameter and no stored
\* value.
C12_AddParamAffectsOneInstance ==
    [][/\ last' = "addparam" =>
              /\ spec' = spec
              /\ \A x \in 1..Len(inst), n \in Names, d \in LocalDecls, v \in LocalVals :
                    AddLocalParam(x, n, d, v) =>
                        \A y \in 1..Len(inst) : y # x => inst'[y] = inst[y]
       /\ (last' = "new" /\ Len(inst') > Len(inst)) =>
              \A n \in Names :
                  spec[inst'[Len(inst')].cls][n] = 0 =>
                      /\ inst'[Len(inst')].local[n] = 0
                      /\ inst'[Len(inst')].dict[AttrName(n)] = "<unset>"]_vars

\* C13: x.add_param(n, d) raises, and installs nothing, whenever the class
\* registry or the instance-local registry of x holds under n a descriptor
\* object other than d.
C13_AddParamRejectsNameCollision ==
    [][last' = "addparam" =>
          \A x \in 1..Len(inst), n \in Names, d \in LocalDecls, v \in LocalVals :
              AddLocalParam(x, n, d, v) =>
                  LET id == IF d.k = "old" THEN d.id ELSE Len(heap) + 1
                  IN  (\/ spec[inst[x].cls][n] \notin {0, id}
                       \/ inst[x].local[n] \notin {0, id}) =>
                          /\ err' \in {"AttributeError", "ValueError"}
                          /\ heap' = heap
                          /\ cdict' = cdict
                          /\ inst' = inst]_vars

\* C14: a write x.n = v changes, of all stored values and descriptors, only
\* what x stores for n: every descriptor, every other stored value of x and
\* every other instance are as before.
C14_WriteChangesOneStoredValue ==
    [][last' = "setattr" =>
          \A x \in 1..Len(inst), n \in Names, v \in SliderVals :
              SetAttr(x, n, v) =>
                  /\ heap' = heap
                  /\ \A y \in 1..Len(inst) : y # x => inst'[y] = inst[y]
                  /\ \A k \in DictKeys :
                        k # AttrName(n) => inst'[x].dict[k] = inst[x].dict[k]]_vars

\* C14 witness: after a write of 3 to beta of one instance, which also stores
\* alpha, another instance and the descriptor still hold beta's default 0.5.
C14_Witness ==
    /\ last = "setattr"
    /\ err = "ok"
    /\ \E x, y \in 1..Len(inst) :
          /\ x # y
          /\ inst[x].dict[AttrName("beta")] = "3"
          /\ inst[x].dict[AttrName("alpha")] = "1.0"
          /\ inst[y].dict[AttrName("beta")] = "0.5"
          /\ heap[spec[inst[x].cls]["beta"]].default = "0.5"

\* C15: a descriptor object whose owner is a class keeps that owner under
\* every operation.
C15_OwnerNeverReassigned ==
    [][\A i \in 1..Len(heap) :
          heap[i].owner > 0 => (i <= Len(heap') /\ heap'[i].owner = heap[i].owner)]_vars

\* to_dict(x) with the reserved key removed, as keyword arguments.
WithoutClassKey(T) == [n \in Names |-> T[n]]

\* C16: for every instance x, the instance constructed from to_dict(x)
\* without the reserved key has the items of x.
C16_ToDictRoundTrip ==
    \A x \in 1..Len(inst) :
        LET kw == WithoutClassKey(ToDict(parent, cdict, spec, heap, inst[x]))
            r == SpecifiedInit(parent, cdict, spec, heap, inst[x].cls, kw)
        IN  /\ r.err = "ok"
            /\ Items(parent, cdict, spec, heap, r.o)
                   = Items(parent, cdict, spec, heap, inst[x])

\* C17: x.copy(**overrides) returns a new instance of x's class in which every
\* parameter of x named in overrides has the override value and every other
\* parameter of x has x's current value, and x is as it was.
C17_CopyKeepsValuesButOverrides ==
    [][last' = "copy" =>
          \A x \in 1..Len(inst), overrides \in Kwargs :
              Copy(x, overrides) =>
                  /\ err' = "ok"
                  /\ Len(inst') = Len(inst) + 1
                  /\ inst'[Len(inst')].cls = inst[x].cls
                  /\ inst'[x] = inst[x]
                  /\ \A n \in Names :
                        (spec[inst[x].cls][n] # 0 \/ inst[x].local[n] # 0) =>
                            GetAttr(parent, cdict, heap, inst'[Len(inst')], n)
                                = IF overrides[n] # "<absent>" THEN overrides[n]
                                  ELSE GetAttr(parent, cdict, heap, inst[x], n)]_vars

\* C18: a write to an initialized instance that changes the parameter's value
\* adds exactly one change-hook invocation (descriptor, old value, new value)
\* to those made on the instance; a write of a value equal to the current one
\* adds none, and a newly constructed instance has received none.
C18_ChangeInvokesHookOnce ==
    [][/\ last' = "setattr" =>
              \A x \in 1..Len(inst), n \in Names, v \in SliderVals :
                  (SetAttr(x, n, v) /\ inst[x].initialized /\ err' = "ok") =>
                      inst'[x].hooks =
                          IF PyEq(v, GetAttr(parent, cdict, heap, inst[x], n))
                          THEN inst[x].hooks
                          ELSE Append(inst[x].hooks,
                                      <<GetParamDescriptor(parent, cdict, inst[x].cls, n).id,
                                        GetAttr(parent, cdict, heap, inst[x], n), v>>)
       /\ (last' = "new" /\ Len(inst') > Len(inst)) =>
              inst'[Len(inst')].hooks = <<>>]_vars

\* C19: x.unlink_widgets() ends without an error, leaves no callback
\* registered on any widget of x, and leaves every stored value as it was.
C19_UnlinkRemovesEveryCallback ==
    [][last' = "unlink" =>
          \A x \in 1..Len(inst) :
              Unlink(x) =>
                  /\ err' = "ok"
                  /\ \A n \in Names : inst'[x].watchers[n] = 0
                  /\ inst'[x].dict = inst[x].dict]_vars

\* C20: add_param under a name other than the one a named and owned
\* descriptor already has raises AttributeError and leaves the descriptor,
\* its name and its storage key included, as it was.
C20_RenamingBoundDescriptorFails ==
    [][last' = "addparam" =>
          \A x \in 1..Len(inst), n \in Names, d \in LocalDecls, v \in LocalVals :
              (/\ d.k = "old"
               /\ heap[d.id].name \notin {"None", n}
               /\ heap[d.id].owner # 0
               /\ AddLocalParam(x, n, d, v)) =>
                  /\ err' = "AttributeError"
                  /\ Len(heap') = Len(heap)
                  /\ heap'[d.id].name = heap[d.id].name
                  /\ heap'[d.id].attrname = heap[d.id].attrname
                  /\ heap'[d.id].owner = heap[d.id].owner]_vars

\* C20 witness: add_param has just failed with AttributeError, and the
\* descriptor of the class is still named beta with beta's storage key.
C20_Witness ==
    /\ last = "addparam"
    /\ err = "AttributeError"
    /\ \E i \in 1..Len(heap) :
          /\ heap[i].name = "beta"
          /\ heap[i].attrname = AttrName("beta")
          /\ heap[i].owner # 0

\* C21: a class-level assignment cls.n = d of a descriptor object makes d the
\* registry entry of cls for n, bound to the name n with the storage key
\* derived from n, owned by cls, and with every metadata field it leaves unset
\* taken from the nearest ancestor that gives one; whether or not n names a
\* parameter of the hierarchy of cls already.
C21_ClassAssignmentBindsDescriptor ==
    [][\A cls \in 1..NumClasses, n \in Names, d \in AssignDecls :
          ClassSetParam(cls, n, d) =>
              LET id == Len(heap) + 1
              IN  /\ spec'[cls][n] = id
                  /\ cdict'[cls][n] = id
                  /\ heap'[id].owner = cls
                  /\ heap'[id].name = n
                  /\ heap'[id].attrname = AttrName(n)
                  /\ \A f \in InheritedFields \cap AllSlots(d.variant) :
                        heap'[id][f] =
                            IF parent[cls] = 0 THEN "None"
                            ELSE NearestValue(parent, cdict, heap, parent[cls], n, f)]_vars

\* C22: for a descriptor of any variant, copy() succeeds and returns a
\* descriptor whose metadata fields equal the original's and whose owner is
\* unset.
C22_DescriptorCopySucceeds ==
    \A id \in DOMAIN heap :
        /\ ParamCopy(heap[id]).err = "ok"
        /\ ParamCopy(heap[id]).p.owner = 0
        /\ \A f \in AllSlots(heap[id].variant) \ {"owner"} :
              ParamCopy(heap[id]).p[f] = heap[id][f]

\* The parameters of instance o that are constant: the names of its registry
\* whose descriptor (the one attribute lookup resolves to) is constant.
ConstantNames(par, cd, sp, h, o) ==
    {n \in Names : /\ sp[o.cls][n] # 0
                   /\ Truthy(h[LookupId(par, cd, o.cls, n)].constant)}

\* C23: reset() on an initialized instance that has a constant parameter fails
\* with TypeError, and the stored value of every constant parameter is the one
\* it had before.
C23_ResetFailsOnConstant ==
    [][\A x \in 1..Len(inst) :
          (/\ Reset(x)
           /\ inst[x].initialized
           /\ ConstantNames(parent, cdict, spec, heap, inst[x]) # {}) =>
              /\ err' = "TypeError"
              /\ \A n \in ConstantNames(parent, cdict, spec, heap, inst[x]) :
                    Read(parent, cdict, heap, inst'[x], n)
                        = Read(parent, cdict, heap, inst[x], n)]_vars

\* C23 witness: reset has just failed on an instance whose constant parameter
\* holds the value a constructor keyword gave it, not its default.
C23_Witness ==
    /\ last = "reset"
    /\ err = "TypeError"
    /\ \E x \in 1..Len(inst) :
          \E n \in ConstantNames(parent, cdict, spec, heap, inst[x]) :
              /\ inst[x].initialized
              /\ Read(parent, cdict, heap, inst[x], n) = "3"
              /\ heap[spec[inst[x].cls][n]].default # "3"

\* The position in the order of params() of the first constant parameter of
\* instance o; 0 when it has none.
FirstConstant(par, cd, sp, h, o) ==
    LET at == {i \in DOMAIN IterNames(sp, o) :
                  IterNames(sp, o)[i] \in ConstantNames(par, cd, sp, h, o)}
    IN  IF at = {} THEN 0 ELSE CHOOSE i \in at : \A j \in at : i <= j

\* C29: when reset() fails on a constant parameter of an initialized instance,
\* every parameter that precedes the constant one in the order of the registry
\* holds the default reset writes (that of its registry entry), and the
\* constant parameter and every parameter after it hold the values they had.
C29_ResetStopsAtConstant ==
    [][\A x \in 1..Len(inst) :
          (/\ Reset(x)
           /\ inst[x].initialized
           /\ err' = "TypeError") =>
              LET names == IterNames(spec, inst[x])
                  k == FirstConstant(parent, cdict, spec, heap, inst[x])
              IN  /\ k # 0
                  /\ \A i \in DOMAIN names :
                        Read(parent, cdict, heap, inst'[x], names[i])
                            = IF i < k THEN Defaults(spec, heap, inst[x])[names[i]]
                              ELSE Read(parent, cdict, heap, inst[x], names[i])]_vars

\* C29 witness: reset has just failed on a constant parameter that is second
\* in the registry; the parameter before it holds its default and the
\* constant one a value that is not its default.
C29_Witness ==
    /\ last = "reset"
    /\ err = "TypeError"
    /\ \E x \in 1..Len(inst) :
          LET names == IterNames(spec, inst[x])
          IN  /\ FirstConstant(parent, cdict, spec, heap, inst[x]) = 2
              /\ Read(parent, cdict, heap, inst[x], names[1])
                    = Defaults(spec, heap, inst[x])[names[1]]
              /\ Read(parent, cdict, heap, inst[x], names[2])
                    # Defaults(spec, heap, inst[x])[names[2]]

C28_OneCallbackPerWidget ==
    [][\A x \in 1..Len(inst) :
          (LinkWidgets(x) /\ err' = "ok") =>
              \A n \in Names :
                  inst'[x].widgets[n] # "<none>" =>
                      /\ inst'[x].watchers[n] = 1
                      /\ ~inst'[x].stale[n]]_vars

\* C27: every initialized instance holds a stored value under the storage key
\* of every parameter its class exposes (every name attribute lookup on the
\* class resolves to a descriptor), whenever the descriptor was installed.
C27_EveryExposedParameterStored ==
    \A x \in 1..Len(inst) :
        inst[x].initialized =>
            \A n \in Names :
                LookupId(parent, cdict, inst[x].cls, n) # 0 =>
                    inst[x].dict[heap[LookupId(parent, cdict, inst[x].cls, n)].attrname]
                        # "<unset>"

\* What the callback of get_widgets may hold as the event it handled last.
PrevEvents == {<<>>} \cup {<<n, v>> : n \in Names, v \in SliderVals \cup {"0.5", "1.0"}}

====
